---- MODULE Spec2Model ----
(***************************************************************************)
(* Model of MqttNetworkTransport::MqttClientNetworkTransport               *)
(* (src/src/MqttClientNetworkTransport.cpp): the transport's Connect, the  *)
(* ConnectionAdapter it returns, the delegate registry                     *)
(* (ConnectionDelegates) and the two event closures handed to the raw      *)
(* connection's Process.                                                   *)
(*                                                                         *)
(* Threads: one caller thread (Connect, the adapter's methods) and, per    *)
(* raw connection, the thread on which the raw connection delivers its     *)
(* events.  The connection factory, host resolution and the raw connection *)
(* (SystemUtils::INetworkConnection) are collaborators outside the         *)
(* repository: the model draws their results and their events from small   *)
(* sets and constrains them only where a definition below says so.         *)
(***************************************************************************)
EXTENDS Integers, Sequences, FiniteSets, TLC

(***************************************************************************)
(* Bounds of the model.                                                    *)
(***************************************************************************)
\* number of Connect calls made on the transport
MaxConnects == 2
\* number of events (inbound data, broken reports) the raw connections deliver
MaxEvents == 2
\* number of adapter method calls (setters, SendData, Break, GetPeerId)
MaxOps == 2
\* number of diagnostic messages the raw connections emit
MaxDiag == 2

(***************************************************************************)
(* Program constants.                                                      *)
(***************************************************************************)
\* SystemUtils::DiagnosticsSender::Levels::ERROR
ERROR == 10
\* the minimum level the diagnostics relay subscribes with
RelayMinLevel == 1

Conns == 1..MaxConnects
Schemes == {"mqtt", "mqtts"}
Hosts == {"example.com", "localhost", "nohost"}
Ports == {1883, 8883}
\* delegates are identified by a number; 0 is the empty std::function (nullptr)
NoDelegate == 0
ConnectDelegates == {0, 1}
SetterDelegates == {0, 2}
\* a block of bytes is identified by the order in which it was produced
Payload(n) == n
RawLevels == {0, 1, ERROR}
RawMessage == <<"raw message">>
Slots == {"data", "broken"}
\* thread identities: the caller thread; the I/O thread of connection c is c
Caller == 0
NoOwner == -1

(***************************************************************************)
(* Text.  A string is a sequence of tokens: literal text, a host name, or  *)
(* the decimal digits of a number as sprintf's %u writes them.             *)
(***************************************************************************)
Dec(n) == ToString(n)

\* (address >> shift*8) & 0xFF, cast to uint8_t
Octet(address, k) ==
    LET p == CASE k = 3 -> 16777216 [] k = 2 -> 65536 [] k = 1 -> 256 [] OTHER -> 1
    IN  (address \div p) % 256

\* StringUtils::sprintf("%s:%" PRIu16, host, port)
PeerLabel(host, port) == <<host, ":", Dec(port % 65536)>>

\* StringUtils::sprintf("%" PRIu8 ".%" PRIu8 ".%" PRIu8 ":%" PRIu16, o3, o2, o1, o0, port):
\* the format has four conversions, so sprintf writes the first four of the
\* five arguments and leaves the fifth, the port, out
PeerIdFormat(address, port) ==
    << Dec(Octet(address, 3)), ".", Dec(Octet(address, 2)), ".",
       Dec(Octet(address, 1)), ":", Dec(Octet(address, 0)) >>

FactoryFailureTextNoLabel(host, port) ==
    <<"Unabale to create connection to '", host, "'">>

FactoryFailureText(host, port) ==
    <<"Unabale to create connection to '">> \o PeerLabel(host, port) \o <<"'">>

ResolutionFailureText(host) ==
    <<"There is no address to get from '", host, "'">>

ConnectFailureText(host, port) ==
    <<"Unable to connect to '">> \o PeerLabel(host, port) \o <<"'">>

ProcessFailureText ==
    <<" Error to start to process listening for incoming and sending outgoing messages. ">>

\* a relay that republishes the message alone
RelayTextNoPrefix(host, port, message) == message

\* peerId + ": " + message
RelayText(host, port, message) == PeerLabel(host, port) \o <<": ">> \o message

\* SystemUtils::NetworkConnection::GetAddressOfHost: 0 when the name does not
\* resolve.  example.com is 93.184.216.34, localhost is 127.0.0.1.
GetAddressOfHost(host) ==
    CASE host = "example.com" -> 1572395042
      [] host = "localhost"   -> 2130706433
      [] OTHER                -> 0

(***************************************************************************)
(* The decisions of Connect.                                               *)
(***************************************************************************)
FactoryFailed(made) == ~made

ResolveFailedNever(address) == FALSE

ResolveFailed(address) == address = 0

ConnectFailedNever(ok) == FALSE

ConnectFailed(ok) == ~ok

ProcessFailedNever(ok) == FALSE

ProcessFailed(ok) == ~ok

VARIABLES
    nconn,      \* number of Connect calls started; call k builds adapter k
    cpc,        \* where the caller thread is
    cset,       \* the arguments of the setter the caller thread is in
    conn,       \* per Connect call: its arguments, raw connection and result
    slots,      \* per adapter: connectionDelegates' two delegates
    retVer,     \* per adapter and slot: the last write whose call has returned
    lockOwner,  \* per adapter: the thread holding connectionDelegates->mutex
    lockDepth,  \* per adapter: how many times the owner holds it (recursive)
    io,         \* per raw connection: where its event thread is
    inv,        \* per adapter: what the event closures did, in order
    sink,       \* what the transport's DiagnosticsSender published, in order
    sent,       \* per raw connection: the SendMessage calls it received
    closes,     \* per raw connection: the Close calls it received
    peerIds,    \* per adapter: what the GetPeerId calls read and returned
    breakAt,    \* per adapter: Len(inv) when Break(true) was first called, or -1
    sendCalls,  \* per adapter: the blocks its SendData calls were given, in order
    emitted,    \* what the raw connections emitted as diagnostics, in order
    nev, nops, ndiag

vars == << nconn, cpc, cset, conn, slots, retVer, lockOwner, lockDepth, io,
           inv, sink, sent, sendCalls, closes, peerIds, breakAt, sendCalls, emitted,
           nev, nops, ndiag >>

EmptySlot == [dlg |-> NoDelegate, ver |-> 0]
\* a std::function in the middle of being assigned
TornDelegate == -1

FreshConn ==
    [ host |-> "", port |-> 0, dr |-> NoDelegate, br |-> NoDelegate,
      address |-> 0, raw |-> "none", relay |-> FALSE,
      peerAddress |-> 0, peerPort |-> 0, rawBroken |-> FALSE,
      result |-> "unused", trace |-> <<>> ]

IdleIo ==
    [ pc |-> "idle", kind |-> "data", arg |-> 0, flag |-> FALSE,
      local |-> EmptySlot, evRet |-> 0, evBreak |-> FALSE,
      nslot |-> "data", ndlg |-> NoDelegate ]

NoSet == [conn |-> 0, slot |-> "data", dlg |-> NoDelegate]

Init ==
    /\ nconn = 0
    /\ cpc = "idle"
    /\ cset = NoSet
    /\ conn = [c \in Conns |-> FreshConn]
    /\ slots = [c \in Conns |-> [k \in Slots |-> EmptySlot]]
    /\ retVer = [c \in Conns |-> [k \in Slots |-> 0]]
    /\ lockOwner = [c \in Conns |-> NoOwner]
    /\ lockDepth = [c \in Conns |-> 0]
    /\ io = [c \in Conns |-> IdleIo]
    /\ inv = [c \in Conns |-> <<>>]
    /\ sink = <<>>
    /\ sent = [c \in Conns |-> <<>>]
    /\ closes = [c \in Conns |-> <<>>]
    /\ peerIds = [c \in Conns |-> <<>>]
    /\ breakAt = [c \in Conns |-> -1]
    /\ sendCalls = [c \in Conns |-> <<>>]
    /\ emitted = <<>>
    /\ nev = 0
    /\ nops = 0
    /\ ndiag = 0

(***************************************************************************)
(* The transport's diagnostics sender.  call is the Connect call the       *)
(* publishing thread is in (0: the message comes from an event thread);    *)
(* own tells Connect's own reports from relayed messages.                  *)
(***************************************************************************)
Published(level, text, call, own) ==
    Append(sink, [level |-> level, text |-> text, call |-> call, own |-> own])

Step(name, ok) == [step |-> name, ok |-> ok]

registry == << slots, retVer, lockOwner, lockDepth >>
events == << io, inv, nev >>
adapterCalls == << cset, sent, sendCalls, closes, peerIds, breakAt, nops >>

(***************************************************************************)
(* Connect, lines 124-191, one action per external call it makes.          *)
(***************************************************************************)
\* lines 128-137: the adapter, the peer label, the factory call
ConnectFactoryOf(hosts, ports, delegates) ==
    /\ cpc = "idle"
    /\ nconn < MaxConnects
    /\ \E scheme \in Schemes, host \in hosts, port \in ports,
          dr \in delegates, br \in delegates, made \in BOOLEAN :
          LET c == nconn + 1
              base == [FreshConn EXCEPT !.host = host, !.port = port, !.dr = dr,
                                        !.br = br, !.result = "pending",
                                        !.trace = <<Step("factory", made)>>]
          IN  /\ nconn' = c
              /\ IF FactoryFailed(made)
                   THEN /\ conn' = [conn EXCEPT ![c] = [base EXCEPT !.result = "null"]]
                        /\ sink' = Published(ERROR, FactoryFailureText(host, port), c, TRUE)
                        /\ cpc' = "idle"
                   ELSE /\ conn' = [conn EXCEPT ![c] = [base EXCEPT !.raw = "created"]]
                        /\ sink' = sink
                        /\ cpc' = "subscribe"
    /\ UNCHANGED << registry, events, adapterCalls, ndiag, emitted >>

\* Connect called with any of the hosts and ports, and two delegates
ConnectFactory == ConnectFactoryOf(Hosts, Ports, {1})

\* the transport's first Connect call, to port 1883, each delegate empty or not
ConnectFactoryOne ==
    nconn = 0 /\ ConnectFactoryOf({"example.com", "nohost"}, {1883}, ConnectDelegates)

\* lines 138-142: the relay subscribes to the raw connection
ConnectSubscribe ==
    /\ cpc = "subscribe"
    /\ conn' = [conn EXCEPT ![nconn].relay = TRUE,
                            ![nconn].trace = Append(@, Step("subscribe", TRUE))]
    /\ cpc' = "resolve"
    /\ UNCHANGED << nconn, sink, registry, events, adapterCalls, ndiag, emitted >>

\* lines 143-151: host resolution
ConnectResolve ==
    /\ cpc = "resolve"
    /\ LET c == nconn
           address == GetAddressOfHost(conn[c].host)
       IN  IF ResolveFailed(address)
             THEN /\ conn' = [conn EXCEPT ![c].address = address,
                                          ![c].trace = Append(@, Step("resolve", address # 0)),
                                          ![c].raw = "released",
                                          ![c].result = "null"]
                  /\ sink' = Published(ERROR, ResolutionFailureText(conn[c].host), c, TRUE)
                  /\ cpc' = "idle"
             ELSE /\ conn' = [conn EXCEPT ![c].address = address,
                                          ![c].trace = Append(@, Step("resolve", address # 0))]
                  /\ sink' = sink
                  /\ cpc' = "rawconnect"
    /\ UNCHANGED << nconn, registry, events, adapterCalls, ndiag, emitted >>

\* lines 152-158: the raw connection's Connect(address, port), which records
\* the peer it was asked to reach
ConnectRawConnect ==
    /\ cpc = "rawconnect"
    /\ \E ok \in BOOLEAN :
          LET c == nconn
          IN  IF ConnectFailed(ok)
                THEN /\ conn' = [conn EXCEPT ![c].peerAddress = conn[c].address,
                                             ![c].peerPort = conn[c].port,
                                             ![c].trace = Append(@, Step("connect", ok)),
                                             ![c].raw = "released",
                                             ![c].result = "null"]
                     /\ sink' = Published(ERROR,
                                   ConnectFailureText(conn[c].host, conn[c].port), c, TRUE)
                     /\ cpc' = "idle"
                ELSE /\ conn' = [conn EXCEPT ![c].peerAddress = conn[c].address,
                                             ![c].peerPort = conn[c].port,
                                             ![c].trace = Append(@, Step("connect", ok)),
                                             ![c].raw = "connected"]
                     /\ sink' = sink
                     /\ cpc' = "install1"
    /\ UNCHANGED << nconn, registry, events, adapterCalls, ndiag, emitted >>

(***************************************************************************)
(* The registry's mutex (std::recursive_mutex) and the assignment of a     *)
(* delegate, which is not atomic: the slot is torn between its two steps.   *)
(***************************************************************************)
CanLock(t, c) == lockOwner[c] = NoOwner \/ lockOwner[c] = t

Locked(t, c) ==
    /\ lockOwner' = [lockOwner EXCEPT ![c] = t]
    /\ lockDepth' = [lockDepth EXCEPT ![c] = @ + 1]

Unlocked(t, c) ==
    /\ lockDepth' = [lockDepth EXCEPT ![c] = IF @ > 0 THEN @ - 1 ELSE 0]
    /\ lockOwner' = [lockOwner EXCEPT ![c] = IF lockDepth[c] > 1 THEN @ ELSE NoOwner]

WriteBegun(c, k) == [slots EXCEPT ![c][k].dlg = TornDelegate]

\* a registry that all the adapters share
WriteEndedShared(c, k, d) ==
    [x \in Conns |-> [slots[x] EXCEPT ![k] = [dlg |-> d, ver |-> @.ver + 1]]]

WriteEnded(c, k, d) == [slots EXCEPT ![c][k] = [dlg |-> d, ver |-> @.ver + 1]]

\* a Connect that goes on to Process without storing the two delegates
ConnectInstallSkipped ==
    /\ cpc \in {"install1", "install1e", "install2", "install2e"}
    /\ cpc' = "process"
    /\ UNCHANGED << nconn, conn, sink, registry, events, adapterCalls, ndiag, emitted >>

\* a Connect that calls Process before it stores the two delegates
ConnectInstallAfterProcess ==
    /\ cpc \in {"install1", "install1e", "install2", "install2e"}
    /\ LET c == nconn
       IN  /\ conn' = [conn EXCEPT ![c].raw = "processing"]
           /\ CASE cpc = "install1"  -> /\ slots' = WriteBegun(c, "data")
                                        /\ cpc' = "install1e"
                                        /\ UNCHANGED retVer
                [] cpc = "install1e" -> /\ slots' = WriteEnded(c, "data", conn[c].dr)
                                        /\ retVer' = [retVer EXCEPT ![c]["data"] = slots[c]["data"].ver + 1]
                                        /\ cpc' = "install2"
                [] cpc = "install2"  -> /\ slots' = WriteBegun(c, "broken")
                                        /\ cpc' = "install2e"
                                        /\ UNCHANGED retVer
                [] OTHER             -> /\ slots' = WriteEnded(c, "broken", conn[c].br)
                                        /\ retVer' = [retVer EXCEPT ![c]["broken"] = slots[c]["broken"].ver + 1]
                                        /\ cpc' = "process"
    /\ UNCHANGED << nconn, sink, lockOwner, lockDepth, events, adapterCalls, ndiag, emitted >>

\* lines 159-160: Connect stores the caller's two delegates without the lock
ConnectInstall ==
    /\ cpc \in {"install1", "install1e", "install2", "install2e"}
    /\ LET c == nconn
       IN  CASE cpc = "install1"  -> /\ slots' = WriteBegun(c, "data")
                                     /\ cpc' = "install1e"
                                     /\ UNCHANGED retVer
             [] cpc = "install1e" -> /\ slots' = WriteEnded(c, "data", conn[c].dr)
                                     /\ retVer' = [retVer EXCEPT ![c]["data"] = slots[c]["data"].ver + 1]
                                     /\ cpc' = "install2"
             [] cpc = "install2"  -> /\ slots' = WriteBegun(c, "broken")
                                     /\ cpc' = "install2e"
                                     /\ UNCHANGED retVer
             [] OTHER             -> /\ slots' = WriteEnded(c, "broken", conn[c].br)
                                     /\ retVer' = [retVer EXCEPT ![c]["broken"] = slots[c]["broken"].ver + 1]
                                     /\ cpc' = "process"
    /\ UNCHANGED << nconn, conn, sink, lockOwner, lockDepth, events, adapterCalls, ndiag, emitted >>

\* lines 161-189: the raw connection's Process with the two closures
ConnectProcess ==
    /\ cpc = "process"
    /\ \E ok \in BOOLEAN :
          LET c == nconn
          IN  IF ProcessFailed(ok)
                THEN /\ conn' = [conn EXCEPT ![c].trace = Append(@, Step("process", ok)),
                                             ![c].raw = "released",
                                             ![c].result = "null"]
                     /\ sink' = Published(ERROR, ProcessFailureText, c, TRUE)
                     /\ cpc' = "idle"
                ELSE /\ conn' = [conn EXCEPT ![c].trace = Append(@, Step("process", ok)),
                                             ![c].raw = IF ok THEN "processing" ELSE "connected"]
                     /\ sink' = sink
                     /\ cpc' = "return"
    /\ UNCHANGED << nconn, registry, events, adapterCalls, ndiag, emitted >>

\* line 190: the adapter is handed to the caller
ConnectReturn ==
    /\ cpc = "return"
    /\ conn' = [conn EXCEPT ![nconn].result = "adapter"]
    /\ cpc' = "idle"
    /\ UNCHANGED << nconn, sink, registry, events, adapterCalls, ndiag, emitted >>

(***************************************************************************)
(* The adapter's methods, called on the caller thread on an adapter that   *)
(* Connect has returned.                                                   *)
(***************************************************************************)
Returned(c) == conn[c].result = "adapter"

\* what the raw connection answers to GetPeerAddress and GetPeerPort: the peer
\* its Connect was given while the connection is established; once it has
\* reported the connection broken the interface does not say
RawPeer(c) ==
    {[address |-> conn[c].peerAddress, port |-> conn[c].peerPort]}
      \cup (IF conn[c].rawBroken THEN {[address |-> 0, port |-> 0]} ELSE {})

\* lines 52-60: the string is built from the raw connection's answers at each call
GetPeerId(peer) == PeerIdFormat(peer.address, peer.port)

CallGetPeerId ==
    /\ cpc = "idle"
    /\ nops < MaxOps
    /\ \E c \in Conns :
          /\ Returned(c)
          /\ \E peer \in RawPeer(c) :
                peerIds' = [peerIds EXCEPT ![c] =
                    Append(@, [address |-> peer.address, port |-> peer.port,
                               text |-> GetPeerId(peer)])]
    /\ nops' = nops + 1
    /\ UNCHANGED << nconn, cpc, cset, conn, sink, registry, events, sent, sendCalls, closes,
                    breakAt, ndiag, emitted >>

\* an adapter that forwards a block only while its connection is not broken
SendMessageUnlessBroken(c, data) ==
    IF conn[c].rawBroken THEN sent[c] ELSE Append(sent[c], data)

\* line 74: adaptee->SendMessage(data), whatever the raw connection's state
SendMessage(c, data) == Append(sent[c], data)

\* lines 73-75
SendData ==
    /\ cpc = "idle"
    /\ nops < MaxOps
    /\ \E c \in Conns, b \in {Payload(nops + 1)} :
          /\ Returned(c)
          /\ sendCalls' = [sendCalls EXCEPT ![c] = Append(@, b)]
          /\ sent' = [sent EXCEPT ![c] = SendMessage(c, b)]
    /\ nops' = nops + 1
    /\ UNCHANGED << nconn, cpc, cset, conn, sink, registry, events, closes, peerIds,
                    breakAt, ndiag, emitted >>

\* line 77
Break ==
    /\ cpc = "idle"
    /\ nops < MaxOps
    /\ \E c \in Conns, clean \in BOOLEAN :
          /\ Returned(c)
          /\ closes' = [closes EXCEPT ![c] = Append(@, clean)]
          /\ breakAt' = [breakAt EXCEPT ![c] =
                 IF clean /\ @ = -1 THEN Len(inv[c]) ELSE @]
    /\ nops' = nops + 1
    /\ UNCHANGED << nconn, cpc, cset, conn, sink, registry, events, sent, sendCalls,
                    peerIds, ndiag, emitted >>

\* lines 62-71: SetDataReceivedDelegate and SetConnectionBrokenDelegate
SetDelegateCall ==
    /\ cpc = "idle"
    /\ nops < MaxOps
    /\ \E c \in Conns, k \in Slots, d \in SetterDelegates :
          /\ Returned(c)
          /\ cset' = [conn |-> c, slot |-> k, dlg |-> d]
    /\ cpc' = "s_lock"
    /\ nops' = nops + 1
    /\ UNCHANGED << nconn, conn, sink, registry, events, sent, sendCalls, closes, peerIds,
                    breakAt, ndiag, emitted >>

\* line 64 / 69, and the start of the assignment of line 65 / 70
SetDelegateLock ==
    /\ cpc = "s_lock"
    /\ CanLock(Caller, cset.conn)
    /\ Locked(Caller, cset.conn)
    /\ slots' = WriteBegun(cset.conn, cset.slot)
    /\ cpc' = "s_write"
    /\ UNCHANGED << nconn, conn, sink, retVer, events, adapterCalls, ndiag, emitted >>

\* the end of the assignment, the lock_guard's destructor and the return
SetDelegateWrite ==
    /\ cpc = "s_write"
    /\ slots' = WriteEnded(cset.conn, cset.slot, cset.dlg)
    /\ Unlocked(Caller, cset.conn)
    /\ retVer' = [retVer EXCEPT ![cset.conn][cset.slot] = slots'[cset.conn][cset.slot].ver]
    /\ cpc' = "idle"
    /\ cset' = NoSet
    /\ UNCHANGED << nconn, conn, sink, events, sent, sendCalls, closes, peerIds, breakAt,
                    nops, ndiag, emitted >>

(***************************************************************************)
(* The raw connection's event thread and the closures of lines 163-182.    *)
(* ClosureNext is the order of a closure's steps: lock, read the slot,     *)
(* unlock (the inner block ends), test and invoke, the delegate runs.      *)
(***************************************************************************)
ClosureNextHoldingLock(pc, dlg) ==
    CASE pc = "read"    -> "invoke"
      [] pc = "invoke"  -> IF dlg # NoDelegate THEN "running" ELSE "unlock"
      [] pc = "running" -> "unlock"
      [] OTHER          -> "idle"

\* a closure that calls the delegate again when it has returned
ClosureNextRedelivers(pc, dlg) ==
    CASE pc = "read"    -> "unlock"
      [] pc = "unlock"  -> "invoke"
      [] pc = "invoke"  -> IF dlg # NoDelegate THEN "running" ELSE "idle"
      [] pc = "running" -> "invoke"
      [] OTHER          -> "idle"

\* a closure that calls its copy without testing it
ClosureNextNoTest(pc, dlg) ==
    CASE pc = "read"    -> "unlock"
      [] pc = "unlock"  -> "invoke"
      [] pc = "invoke"  -> "running"
      [] OTHER          -> "idle"

ClosureNext(pc, dlg) ==
    CASE pc = "read"    -> "unlock"
      [] pc = "unlock"  -> "invoke"
      [] pc = "invoke"  -> IF dlg # NoDelegate THEN "running" ELSE "idle"
      [] OTHER          -> "idle"

\* a closure that captured the two delegates by value when Process was called
SnapshotAtProcess(c, k) ==
    [dlg |-> IF k = "data" THEN conn[c].dr ELSE conn[c].br, ver |-> 1]

\* lines 168 and 178: the copy of the slot
Snapshot(c, k) == slots[c][k]

\* the raw connection delivers no data once it has reported the connection
\* broken (the adapter relies on it, it does not enforce it)
RawMayDeliverData(c) == ~conn[c].rawBroken

\* the raw connection calls the first closure with the bytes it received
RawDeliversData ==
    /\ nev < MaxEvents
    /\ \E c \in Conns, b \in {Payload(nev + 1)} :
          /\ conn[c].raw = "processing"
          /\ io[c].pc = "idle"
          /\ RawMayDeliverData(c)
          /\ io' = [io EXCEPT ![c] = [IdleIo EXCEPT !.pc = "lock", !.kind = "data",
                                                    !.arg = b,
                                                    !.evBreak = breakAt[c] >= 0,
                                                    !.evRet = retVer[c]["data"]]]
    /\ nev' = nev + 1
    /\ UNCHANGED << nconn, cpc, conn, sink, registry, inv, adapterCalls, ndiag, emitted >>

\* the raw connection calls the second closure
RawReportsBroken ==
    /\ nev < MaxEvents
    /\ \E c \in Conns, graceful \in BOOLEAN :
          /\ conn[c].raw = "processing"
          /\ io[c].pc = "idle"
          /\ io' = [io EXCEPT ![c] = [IdleIo EXCEPT !.pc = "lock", !.kind = "broken",
                                                    !.flag = graceful,
                                                    !.evBreak = breakAt[c] >= 0,
                                                    !.evRet = retVer[c]["broken"]]]
          /\ conn' = [conn EXCEPT ![c].rawBroken = TRUE]
    /\ nev' = nev + 1
    /\ UNCHANGED << nconn, cpc, sink, registry, inv, adapterCalls, ndiag, emitted >>

\* a closure is over: the event thread waits for the next event
After(c, pc) == IF pc = "idle" THEN IdleIo ELSE [io[c] EXCEPT !.pc = pc]

\* lines 167-168 and 177-178: the lock_guard and the copy of the slot
ClosureLock ==
    \E c \in Conns :
       /\ io[c].pc = "lock"
       /\ CanLock(c, c)
       /\ Locked(c, c)
       /\ LET s == Snapshot(c, io[c].kind)
          IN  io' = [io EXCEPT ![c].local = s, ![c].pc = ClosureNext("read", s.dlg)]
       /\ UNCHANGED << nconn, cpc, conn, sink, slots, retVer, inv, nev, adapterCalls, ndiag, emitted >>

\* lines 169 and 179: the end of the lock_guard's block
ClosureUnlock ==
    \E c \in Conns :
       /\ io[c].pc = "unlock"
       /\ Unlocked(c, c)
       /\ io' = [io EXCEPT ![c] = After(c, ClosureNext("unlock", io[c].local.dlg))]
       /\ UNCHANGED << nconn, cpc, conn, sink, slots, retVer, inv, nev, adapterCalls, ndiag, emitted >>

\* lines 170-171 and 180-181: the test and the call of the copied delegate
ClosureInvoke ==
    \E c \in Conns :
       /\ io[c].pc = "invoke"
       /\ inv' = [inv EXCEPT ![c] = Append(@,
               [ kind |-> io[c].kind, arg |-> io[c].arg, flag |-> io[c].flag,
                 dlg |-> io[c].local.dlg, ver |-> io[c].local.ver,
                 passedArg |-> io[c].arg, passedFlag |-> io[c].flag,
                 evRet |-> io[c].evRet, invRet |-> retVer[c][io[c].kind],
                 evBreak |-> io[c].evBreak ])]
       /\ io' = [io EXCEPT ![c] = After(c, ClosureNext("invoke", io[c].local.dlg))]
       /\ UNCHANGED << nconn, cpc, conn, sink, registry, nev, adapterCalls, ndiag, emitted >>

\* the delegate returns
DelegateReturns ==
    \E c \in Conns :
       /\ io[c].pc = "running"
       /\ io' = [io EXCEPT ![c] = After(c, ClosureNext("running", io[c].local.dlg))]
       /\ UNCHANGED << nconn, cpc, conn, sink, registry, inv, nev, adapterCalls, ndiag, emitted >>

\* the running delegate calls a setter of its own adapter (lines 62-71, on the
\* event thread)
DelegateCallsSetter ==
    /\ nops < MaxOps
    /\ \E c \in Conns, k \in Slots, d \in SetterDelegates :
          /\ io[c].pc = "running"
          /\ io' = [io EXCEPT ![c].pc = "n_lock", ![c].nslot = k, ![c].ndlg = d]
    /\ nops' = nops + 1
    /\ UNCHANGED << nconn, cpc, conn, sink, registry, inv, nev, cset, sent, sendCalls, closes,
                    peerIds, breakAt, ndiag, emitted >>

DelegateSetterLock ==
    \E c \in Conns :
       /\ io[c].pc = "n_lock"
       /\ CanLock(c, c)
       /\ Locked(c, c)
       /\ slots' = WriteBegun(c, io[c].nslot)
       /\ io' = [io EXCEPT ![c].pc = "n_write"]
       /\ UNCHANGED << nconn, cpc, conn, sink, retVer, inv, nev, adapterCalls, ndiag, emitted >>

DelegateSetterWrite ==
    \E c \in Conns :
       /\ io[c].pc = "n_write"
       /\ slots' = WriteEnded(c, io[c].nslot, io[c].ndlg)
       /\ Unlocked(c, c)
       /\ retVer' = [retVer EXCEPT ![c][io[c].nslot] = slots'[c][io[c].nslot].ver]
       /\ io' = [io EXCEPT ![c].pc = "running", ![c].nslot = "data", ![c].ndlg = NoDelegate]
       /\ UNCHANGED << nconn, cpc, conn, sink, inv, nev, adapterCalls, ndiag, emitted >>

(***************************************************************************)
(* The diagnostics relay, lines 138-142: the raw connection emits a        *)
(* message; its DiagnosticsSender calls the subscriber when the level is   *)
(* at least the subscription's minimum; the relay republishes it.          *)
(***************************************************************************)
\* a subscription with minimum level 0
RelayPassesAll(level) == TRUE

RelayPasses(level) == level >= RelayMinLevel

\* the raw connection emits while Connect is inside its Connect or its Process
RawMayEmit(c) == c = nconn /\ cpc \in {"rawconnect", "process"}

RawEmitsDiagnostic ==
    /\ ndiag < MaxDiag
    /\ \E c \in Conns, level \in RawLevels :
          /\ RawMayEmit(c)
          /\ sink' = IF conn[c].relay /\ RelayPasses(level)
                       THEN Published(level,
                                RelayText(conn[c].host, conn[c].port, RawMessage),
                                c, FALSE)
                       ELSE sink
          /\ emitted' = Append(emitted, [conn |-> c, level |-> level,
                                          message |-> RawMessage])
    /\ ndiag' = ndiag + 1
    /\ UNCHANGED << nconn, cpc, conn, registry, events, adapterCalls >>

(***************************************************************************)
(* What the claims are stated with.                                        *)
(***************************************************************************)
Contains(text, part) ==
    \E i \in 1..(Len(text) - Len(part) + 1) : SubSeq(text, i, i + Len(part) - 1) = part

\* "A.B.C.D:port", the octets from most to least significant
DottedQuad(address, port) ==
    << Dec(Octet(address, 3)), ".", Dec(Octet(address, 2)), ".",
       Dec(Octet(address, 1)), ".", Dec(Octet(address, 0)), ":", Dec(port) >>

CallDone(c) == conn[c].result \in {"null", "adapter"}

StepOk(c, name) ==
    \E i \in 1..Len(conn[c].trace) : conn[c].trace[i].step = name /\ conn[c].trace[i].ok

StepFailed(c, name) ==
    \E i \in 1..Len(conn[c].trace) : conn[c].trace[i].step = name /\ ~conn[c].trace[i].ok

FailureSteps == {"factory", "resolve", "connect", "process"}
AllSucceeded(c) == \A name \in FailureSteps : StepOk(c, name)
SomeFailed(c) == \E name \in FailureSteps : StepFailed(c, name)

\* the messages published on the sink during Connect call c
CallMessages(c) == SelectSeq(sink, LAMBDA m : m.call = c)
CallErrors(c) == SelectSeq(sink, LAMBDA m : m.call = c /\ m.level = ERROR)
\* those among them that Connect published itself
OwnMessages(c) == SelectSeq(sink, LAMBDA m : m.call = c /\ m.own)
OwnErrors(c) == SelectSeq(sink, LAMBDA m : m.call = c /\ m.own /\ m.level = ERROR)

StepOrder == <<"factory", "subscribe", "resolve", "connect", "process">>

(***************************************************************************)
(* C1: Connect returns an adapter if and only if the factory, the          *)
(* resolution, the raw Connect and the raw Process all succeeded in that   *)
(* call; otherwise it returns null and the caller gets no adapter.         *)
(***************************************************************************)
C1_AdapterIffAllSucceeded ==
    \A c \in Conns :
       /\ conn[c].result = "adapter" => AllSucceeded(c)
       /\ CallDone(c) /\ AllSucceeded(c) => conn[c].result = "adapter"
       /\ CallDone(c) /\ ~AllSucceeded(c) => conn[c].result = "null" /\ ~Returned(c)

C1_Witness ==
    \E c, d \in Conns :
       /\ conn[c].result = "adapter" /\ AllSucceeded(c)
       /\ conn[d].result = "null" /\ StepFailed(d, "process")

(***************************************************************************)
(* C2: when the factory returns null, Connect returns null and publishes   *)
(* exactly one message, at error level, containing "<host>:<port>"; it     *)
(* makes no subscription, resolution, raw Connect or Process call.         *)
(***************************************************************************)
C2_FactoryNull ==
    \A c \in Conns :
       CallDone(c) /\ StepFailed(c, "factory") =>
          /\ conn[c].result = "null"
          /\ conn[c].trace = <<Step("factory", FALSE)>>
          /\ ~conn[c].relay
          /\ conn[c].raw = "none"
          /\ Len(CallMessages(c)) = 1
          /\ Len(CallErrors(c)) = 1
          /\ CallErrors(c)[1].own
          /\ Contains(CallErrors(c)[1].text, <<conn[c].host, ":", Dec(conn[c].port)>>)

C2_Witness ==
    \E c \in Conns : CallDone(c) /\ StepFailed(c, "factory") /\ conn[c].port = 8883

(***************************************************************************)
(* C3: within one Connect call the external steps happen in the order      *)
(* factory, subscription, resolution, raw Connect, raw Process, each at    *)
(* most once, and no step follows a failed one.                            *)
(***************************************************************************)
C3_StepOrder ==
    \A c \in Conns :
       LET t == conn[c].trace
       IN  /\ Len(t) <= Len(StepOrder)
           /\ \A i \in 1..Len(t) :
                 /\ t[i].step = StepOrder[i]
                 /\ i < Len(t) => t[i].ok

C3_Witness ==
    \E c, d \in Conns :
       /\ Len(conn[c].trace) = 5
       /\ CallDone(d) /\ StepFailed(d, "resolve") /\ Len(conn[d].trace) = 3

(***************************************************************************)
(* C4, as stated: a failed Connect call puts exactly one error-level       *)
(* message on the sink during the call, a successful one none.             *)
(***************************************************************************)
C4_Original ==
    \A c \in Conns :
       CallDone(c) =>
          /\ SomeFailed(c) => Len(CallErrors(c)) = 1
          /\ conn[c].result = "adapter" => Len(CallErrors(c)) = 0

(***************************************************************************)
(* C4, amended: a failed Connect call publishes exactly one message of its *)
(* own, at error level, and a successful one none of its own; what the     *)
(* relay republishes from the raw connection during the call comes on top, *)
(* at the level the raw connection gave it.                                *)
(***************************************************************************)
C4_OneOwnError ==
    \A c \in Conns :
       CallDone(c) =>
          /\ SomeFailed(c) => Len(OwnMessages(c)) = 1 /\ Len(OwnErrors(c)) = 1
          /\ conn[c].result = "adapter" => Len(OwnMessages(c)) = 0
          /\ \A i \in 1..Len(CallMessages(c)) :
                ~CallMessages(c)[i].own => RelayPasses(CallMessages(c)[i].level)

C4_Witness ==
    \E c \in Conns :
       /\ CallDone(c) /\ StepFailed(c, "connect")
       /\ Len(OwnErrors(c)) = 1
       /\ Len(CallErrors(c)) = 2

(***************************************************************************)
(* C5: the error message of every kind of Connect failure contains the     *)
(* peer label of the attempt, "<host>:<port>" or the numeric identity.     *)
(***************************************************************************)
C5_ErrorHasPeerLabel ==
    \A c \in Conns :
       CallDone(c) /\ SomeFailed(c) =>
          \A i \in 1..Len(OwnErrors(c)) :
             \/ Contains(OwnErrors(c)[i].text, <<conn[c].host, ":", Dec(conn[c].port)>>)
             \/ Contains(OwnErrors(c)[i].text, DottedQuad(conn[c].address, conn[c].port))

(***************************************************************************)
(* C6: GetPeerId returns "A.B.C.D:port" for the raw connection's peer      *)
(* address and port, e.g. "93.184.216.34:1883".                            *)
(***************************************************************************)
C6_PeerIdIsDottedQuadAndPort ==
    \A c \in Conns :
       \A i \in 1..Len(peerIds[c]) :
          peerIds[c][i].text = DottedQuad(peerIds[c][i].address, peerIds[c][i].port)

(***************************************************************************)
(* C7: GetPeerId returns the same string on every call on one adapter,     *)
(* whatever has happened to the raw connection in between.                 *)
(***************************************************************************)
C7_PeerIdNeverChanges ==
    \A c \in Conns :
       \A i, j \in 1..Len(peerIds[c]) : peerIds[c][i].text = peerIds[c][j].text

(***************************************************************************)
(* C8, as stated: once SetDataReceivedDelegate(d) has returned, every      *)
(* inbound-data event delivered afterwards invokes d with the bytes the    *)
(* raw connection produced, and no delegate registered earlier is invoked  *)
(* after that return.  (An entry of inv has the version of the slot the    *)
(* closure copied, the version returned when the event was delivered and   *)
(* the version returned when the delegate was invoked.)                    *)
(***************************************************************************)
C8_Original ==
    \A c \in Conns :
       \A i \in 1..Len(inv[c]) :
          LET e == inv[c][i]
          IN  e.kind = "data" =>
                 /\ e.ver >= e.evRet
                 /\ e.passedArg = e.arg
                 /\ e.dlg # NoDelegate => e.ver >= e.invRet

(***************************************************************************)
(* C8, amended: once SetDataReceivedDelegate(d) has returned, every        *)
(* inbound-data event delivered afterwards invokes d (or a delegate set    *)
(* after d) with the bytes the raw connection produced; a delegate         *)
(* registered earlier is invoked after that return only by an event that   *)
(* was delivered before it.                                                *)
(***************************************************************************)
C8_EventsAfterReturnUseNewDelegate ==
    \A c \in Conns :
       \A i \in 1..Len(inv[c]) :
          LET e == inv[c][i]
          IN  e.kind = "data" =>
                 /\ e.ver >= e.evRet
                 /\ e.passedArg = e.arg
                 /\ e.ver < e.invRet => e.evRet < e.invRet

C8_Witness ==
    \E c \in Conns :
       \E i \in 1..Len(inv[c]) :
          /\ inv[c][i].kind = "data"
          /\ inv[c][i].evRet >= 2
          /\ inv[c][i].dlg = 2

(***************************************************************************)
(* C9: the registry lock is never held by a closure while the delegate it  *)
(* copied is called or runs; each thread holds the lock only inside the    *)
(* set or the copy of a slot, so whoever waits for the lock waits for one  *)
(* assignment and never for a delegate; a slot is in the middle of an      *)
(* assignment only while its writer holds the lock (or Connect installs    *)
(* it), and no closure ever copies a slot in that state.                   *)
(***************************************************************************)
C9_LockInvariant ==
    \A c \in Conns :
       /\ io[c].pc \in {"invoke", "running", "n_lock"} => lockOwner[c] # c
       /\ io[c].pc = "n_write" => lockOwner[c] = c /\ lockDepth[c] = 1
       /\ lockOwner[c] = c => io[c].pc \in {"unlock", "n_write"}
       /\ lockOwner[c] = Caller => cpc = "s_write" /\ cset.conn = c
       /\ lockOwner[c] = NoOwner <=> lockDepth[c] = 0
       /\ \A k \in Slots :
             slots[c][k].dlg = TornDelegate =>
                \/ lockOwner[c] = Caller /\ cset.slot = k
                \/ lockOwner[c] = c /\ io[c].pc = "n_write" /\ io[c].nslot = k
                \/ c = nconn /\ cpc \in {"install1e", "install2e"} /\ lockOwner[c] = NoOwner
       /\ io[c].local.dlg # TornDelegate
       /\ \A i \in 1..Len(inv[c]) : inv[c][i].dlg # TornDelegate

\* a setter that has been called returns, on the caller thread and inside a
\* delegate, whether or not a running delegate ever returns (FairSpec)
C9_LockNeverHeldDuringDelegate ==
    /\ []C9_LockInvariant
    /\ (cpc = "s_lock") ~> (cpc = "idle")
    /\ \A c \in Conns : (io[c].pc = "n_lock") ~> (io[c].pc = "running")

C9_Witness ==
    \E c \in Conns :
       /\ io[c].pc = "running"
       /\ lockOwner[c] = Caller
       /\ cpc = "s_write"

(***************************************************************************)
(* C10: after Break(true) on an adapter the broken delegate is invoked     *)
(* exactly once, with graceful = true, and the data-received delegate is   *)
(* not invoked after that invocation.  (The part a finite run refutes,     *)
(* over the events the raw connection delivers after the Break call: at    *)
(* most once, never with graceful = false, no data delegate afterwards.)   *)
(***************************************************************************)
C10_BreakTrueOneGracefulNotification ==
    \A c \in Conns :
       breakAt[c] >= 0 =>
          LET after == {i \in 1..Len(inv[c]) : inv[c][i].evBreak /\ inv[c][i].dlg # NoDelegate}
              broken == {i \in after : inv[c][i].kind = "broken"}
          IN  /\ Cardinality(broken) <= 1
              /\ \A i \in broken : inv[c][i].passedFlag = TRUE
              /\ \A i \in broken, j \in after : inv[c][j].kind = "data" => j < i

\* the invocations of a non-empty broken delegate on adapter c
BrokenInvocations(c) ==
    {i \in 1..Len(inv[c]) : inv[c][i].kind = "broken" /\ inv[c][i].dlg # NoDelegate}

\* those among the messages of the sink that the relay published
RelayedMessages == SelectSeq(sink, LAMBDA m : ~m.own)

(***************************************************************************)
(* C11: once the broken delegate of an adapter has been invoked, no Break  *)
(* call and no further broken report of the raw connection invokes it      *)
(* again: the broken delegate of an adapter is invoked at most once.       *)
(***************************************************************************)
C11_BrokenDelegateInvokedOnce ==
    \A c \in Conns : Cardinality(BrokenInvocations(c)) <= 1

(***************************************************************************)
(* C12, as stated: every relayed message is the string GetPeerId returns   *)
(* for the connection (as the code builds it, or as "A.B.C.D:port"),       *)
(* then ": ", then the raw connection's message.                           *)
(***************************************************************************)
C12_Original ==
    \A i \in 1..Len(RelayedMessages) :
       LET m == RelayedMessages[i]
           c == m.call
       IN  \/ m.text = GetPeerId([address |-> conn[c].address, port |-> conn[c].port])
                         \o <<": ">> \o RawMessage
           \/ m.text = DottedQuad(conn[c].address, conn[c].port) \o <<": ">> \o RawMessage

(***************************************************************************)
(* C12, amended: every relayed message is the peer label Connect built     *)
(* from its arguments, "<host>:<port>", then ": ", then the message the    *)
(* raw connection emitted, unmodified, in the order of emission.           *)
(***************************************************************************)
C12_RelayedHasPeerLabel ==
    LET passed == SelectSeq(emitted, LAMBDA e : e.level >= 1)
    IN  /\ Len(RelayedMessages) = Len(passed)
        /\ \A i \in 1..Len(passed) :
              LET c == passed[i].conn
              IN  RelayedMessages[i].text =
                     <<conn[c].host, ":", Dec(conn[c].port), ": ">> \o passed[i].message

C12_Witness ==
    \E i \in 1..Len(RelayedMessages) :
       /\ conn[RelayedMessages[i].call].host = "example.com"
       /\ conn[RelayedMessages[i].call].port = 8883
       /\ conn[RelayedMessages[i].call].result = "adapter"

\* the delegate the caller of Connect supplied for slot k
CallerDelegate(c, k) == IF k = "data" THEN conn[c].dr ELSE conn[c].br

(***************************************************************************)
(* C13: the caller's two delegates are in the registry (version 1 of each  *)
(* slot) before the raw connection's Process is called; events are         *)
(* delivered only once Process has been called, so every closure copies a  *)
(* slot that has been installed, and a closure that copies version 1       *)
(* calls the delegate the caller supplied.                                 *)
(***************************************************************************)
C13_InstalledBeforeProcess ==
    \A c \in Conns :
       /\ (conn[c].raw = "processing" \/ (c = nconn /\ cpc \in {"process", "return"})) =>
             \A k \in Slots :
                /\ slots[c][k].ver >= 1
                /\ slots[c][k].ver = 1 /\ slots[c][k].dlg # TornDelegate =>
                      slots[c][k].dlg = CallerDelegate(c, k)
       /\ io[c].pc # "idle" => conn[c].raw = "processing"
       /\ io[c].pc \notin {"idle", "lock"} => io[c].local.ver >= 1
       /\ \A i \in 1..Len(inv[c]) :
             /\ inv[c][i].ver >= 1
             /\ inv[c][i].ver = 1 => inv[c][i].dlg = CallerDelegate(c, inv[c][i].kind)

\* an event delivered before Connect has returned reaches the caller's delegate
C13_Witness ==
    \E c \in Conns :
       /\ conn[c].result = "pending"
       /\ Len(inv[c]) >= 1
       /\ inv[c][1].ver = 1
       /\ inv[c][1].dlg = 1

\* the event closure of connection c has been called and has not yet called
\* the delegate
Pending(c) == io[c].pc \in {"lock", "unlock", "invoke"}

(***************************************************************************)
(* C14: on one connection the blocks passed to the data-received delegate  *)
(* are the blocks the raw connection delivered, in the order of delivery,  *)
(* each at most once, and each inside the raw connection's call of the     *)
(* closure: every delivered event is either in its closure, before the     *)
(* call of the delegate, or recorded as handled; nothing is kept back.     *)
(* (Blocks are numbered in the order the raw connection produced them.)    *)
(***************************************************************************)
C14_InOrderAtMostOnce ==
    /\ \A c \in Conns :
          /\ \A i, j \in 1..Len(inv[c]) :
                inv[c][i].kind = "data" /\ inv[c][j].kind = "data" /\ i < j =>
                   inv[c][i].passedArg < inv[c][j].passedArg
          /\ \A i \in 1..Len(inv[c]) :
                /\ inv[c][i].passedArg = inv[c][i].arg
                /\ Pending(c) /\ io[c].kind = "data" /\ inv[c][i].kind = "data" =>
                      inv[c][i].arg < io[c].arg
          /\ io[c].pc \in {"running", "n_lock", "n_write"} =>
                /\ Len(inv[c]) >= 1
                /\ inv[c][Len(inv[c])].kind = io[c].kind
                /\ inv[c][Len(inv[c])].passedArg = io[c].arg
                /\ inv[c][Len(inv[c])].dlg = io[c].local.dlg
    /\ Cardinality({<<c, i>> \in Conns \X (1..MaxEvents + 1) : i <= Len(inv[c])})
          + Cardinality({c \in Conns : Pending(c)}) = nev

C14_Witness ==
    \E c \in Conns :
       /\ Len(inv[c]) = 2
       /\ \A i \in 1..2 : inv[c][i].kind = "data" /\ inv[c][i].dlg # NoDelegate
       /\ inv[c][1].passedArg = Payload(1)
       /\ inv[c][2].passedArg = Payload(2)

(***************************************************************************)
(* C15: each SendData call makes exactly one SendMessage call on the raw   *)
(* connection, with the same bytes, before it returns: the blocks the raw  *)
(* connection received are the blocks SendData was given, in the same      *)
(* order, whatever the state of the connection.                            *)
(***************************************************************************)
C15_SendForwarded ==
    \A c \in Conns :
       /\ sent[c] = sendCalls[c]
       /\ \A i, j \in 1..Len(sent[c]) : i < j => sent[c][i] < sent[c][j]

C15_Witness ==
    \E c \in Conns :
       /\ conn[c].rawBroken
       /\ sent[c] = <<Payload(1), Payload(2)>>

\* the delegate the closure of connection c copied is being run
InDelegate(c) == io[c].pc \in {"running", "n_lock", "n_write"}

\* the closure of connection c tests an empty copy (lines 170 and 180)
EmptyTest(c) ==
    /\ io[c].pc = "invoke"
    /\ io[c].local.dlg = NoDelegate
    /\ io'[c] # io[c]

(***************************************************************************)
(* C16: when the slot an event's closure copied is empty, whether Connect  *)
(* was given an empty delegate or a setter stored one, the closure calls   *)
(* nothing and returns: no delegate runs, nothing is published or sent,    *)
(* and the registry, its lock and the connection are left as they were.    *)
(***************************************************************************)
C16_EmptySlotIsNoOp ==
    /\ [](\A c \in Conns :
            /\ InDelegate(c) => io[c].local.dlg # NoDelegate
            /\ io[c].pc = "idle" /\ Len(inv[c]) >= 1 /\ inv[c][Len(inv[c])].dlg = NoDelegate =>
                  lockOwner[c] # c)
    /\ [][\A c \in Conns :
             EmptyTest(c) =>
                /\ io'[c] = IdleIo
                /\ inv'[c] = Append(inv[c], inv'[c][Len(inv'[c])])
                /\ inv'[c][Len(inv'[c])].dlg = NoDelegate
                /\ slots' = slots /\ retVer' = retVer
                /\ lockOwner' = lockOwner /\ lockDepth' = lockDepth
                /\ conn' = conn /\ sink' = sink
                /\ sent' = sent /\ closes' = closes]_vars

\* an empty delegate given to Connect and an empty delegate stored by a setter
C16_Witness ==
    \E c \in Conns :
       /\ Len(inv[c]) = 2
       /\ inv[c][1].dlg = NoDelegate /\ inv[c][1].ver = 1
       /\ inv[c][2].dlg = NoDelegate /\ inv[c][2].ver >= 2
       /\ io[c].pc = "idle"

(***************************************************************************)
(* C17: a closure copies the slot as it is at that moment, keeps the copy  *)
(* until it returns, and calls it once.  So a replaced delegate is called  *)
(* after the replacement only by an event whose copy was taken before it,  *)
(* once, and runs to its end; a copy taken after the replacement is of the *)
(* new delegate (copies of one slot are of non-decreasing versions, and    *)
(* copies of the same version are of the same delegate).                   *)
(***************************************************************************)
C17_ReplacedDelegate ==
    /\ [](\A c \in Conns :
            \A i, j \in 1..Len(inv[c]) :
               inv[c][i].kind = inv[c][j].kind =>
                  /\ i < j => inv[c][i].ver <= inv[c][j].ver
                  /\ inv[c][i].ver = inv[c][j].ver => inv[c][i].dlg = inv[c][j].dlg
                  /\ inv[c][i].ver <= slots[c][inv[c][i].kind].ver
                  /\ inv[c][i].ver = slots[c][inv[c][i].kind].ver =>
                        slots[c][inv[c][i].kind].dlg \in {inv[c][i].dlg, TornDelegate})
    /\ [][\A c \in Conns :
             /\ io[c].pc = "lock" /\ io'[c].pc # "lock" =>
                   io'[c].local = slots[c][io[c].kind]
             /\ io[c].pc \notin {"idle", "lock"} /\ io'[c].pc # "idle" =>
                   /\ io'[c].local = io[c].local
                   /\ io'[c].kind = io[c].kind
                   /\ io'[c].arg = io[c].arg
             /\ inv'[c] # inv[c] =>
                   /\ io[c].pc = "invoke"
                   /\ io'[c].pc \in {"running", "idle"}
                   /\ Len(inv'[c]) = Len(inv[c]) + 1
                   /\ SubSeq(inv'[c], 1, Len(inv[c])) = inv[c]
                   /\ inv'[c][Len(inv'[c])].dlg = io[c].local.dlg
                   /\ inv'[c][Len(inv'[c])].ver = io[c].local.ver
             /\ io[c].pc = "running" => io'[c].pc \in {"running", "n_lock", "idle"}
             /\ io[c].pc \in {"n_lock", "n_write"} =>
                   io'[c].pc \in {"n_lock", "n_write", "running"}]_vars

\* the delegate Connect installed runs after a setter has replaced it
C17_Witness ==
    \E c \in Conns :
       /\ io[c].pc = "running"
       /\ io[c].local.dlg = 1
       /\ slots[c][io[c].kind].dlg = 2
       /\ io[c].local.ver < slots[c][io[c].kind].ver
       /\ cpc = "idle"

(***************************************************************************)
(* C18: the relay is subscribed with minimum level 1: no message the raw   *)
(* connection emits at level 0 reaches the sink, and each message it       *)
(* emits at level 1 or above is republished once, in order, at the level   *)
(* it was emitted with.                                                    *)
(***************************************************************************)
C18_RelayFromLevelOne ==
    LET audible == SelectSeq(emitted, LAMBDA e : e.level >= 1)
    IN  /\ Len(RelayedMessages) = Len(audible)
        /\ \A i \in 1..Len(RelayedMessages) :
              /\ RelayedMessages[i].level >= 1
              /\ i <= Len(audible) =>
                    /\ RelayedMessages[i].level = audible[i].level
                    /\ RelayedMessages[i].call = audible[i].conn

\* a message at level 0 was dropped and one at level 1 republished
C18_Witness ==
    /\ Len(emitted) = 2
    /\ emitted[1].level = 0
    /\ emitted[2].level = 1
    /\ Len(RelayedMessages) = 1
    /\ RelayedMessages[1].level = 1

\* Connect is storing the caller's delegate in slot k of adapter c
Installing(c, k) ==
    /\ c = nconn
    /\ \/ k = "data" /\ cpc \in {"install1", "install1e"}
       \/ k = "broken" /\ cpc \in {"install2", "install2e"}

\* a setter called for slot k of adapter c is in its assignment, on the caller
\* thread or inside a delegate of adapter c
SetterOn(c, k) ==
    \/ cpc \in {"s_lock", "s_write"} /\ cset.conn = c /\ cset.slot = k
    \/ io[c].pc \in {"n_lock", "n_write"} /\ io[c].nslot = k

(***************************************************************************)
(* C19: a slot of an adapter changes only in a setter called for that slot *)
(* on that adapter (or when Connect installs it), and a step changes at    *)
(* most one slot: the other slot of the adapter and the slots of every     *)
(* other adapter stay as they are; SendData, Break, GetPeerId and the      *)
(* closures change no slot.                                                *)
(***************************************************************************)
C19_SlotsIndependent ==
    [][ /\ \A c \in Conns, k \in Slots :
              slots'[c][k] # slots[c][k] => SetterOn(c, k) \/ Installing(c, k)
        /\ Cardinality({ck \in Conns \X Slots :
                           slots'[ck[1]][ck[2]] # slots[ck[1]][ck[2]]}) <= 1
        /\ (sent' # sent \/ closes' # closes \/ peerIds' # peerIds \/ inv' # inv) =>
              slots' = slots ]_vars

\* two adapters; a setter replaced the data slot of the first only
C19_Witness ==
    /\ Returned(1) /\ Returned(2)
    /\ slots[1]["data"] = [dlg |-> 2, ver |-> 2]
    /\ slots[1]["broken"] = [dlg |-> 1, ver |-> 1]
    /\ slots[2]["data"] = [dlg |-> 1, ver |-> 1]
    /\ slots[2]["broken"] = [dlg |-> 1, ver |-> 1]
    /\ cpc = "idle"

(***************************************************************************)
(* C20: while Connect stores the two delegates without the lock, Process   *)
(* has not been called on that raw connection, no closure of it runs, the  *)
(* adapter has not been returned and nobody holds or waits for its lock;   *)
(* every other write of a slot is made by the holder of the lock, and      *)
(* every copy of a slot is made by the holder of the lock, of a slot that  *)
(* is not in the middle of an assignment.                                  *)
(***************************************************************************)
C20_UnlockedInstallIsAlone ==
    /\ [](\A c \in Conns :
            /\ (\E k \in Slots : Installing(c, k)) =>
                  /\ conn[c].raw = "connected"
                  /\ ~Returned(c)
                  /\ io[c].pc = "idle"
                  /\ lockOwner[c] = NoOwner
                  /\ cset.conn # c
            /\ io[c].pc = "unlock" => lockOwner[c] = c)
    /\ [][\A c \in Conns :
             /\ \A k \in Slots :
                   slots'[c][k] # slots[c][k] /\ ~Installing(c, k) =>
                      \/ lockOwner'[c] # NoOwner /\ slots'[c][k].dlg = TornDelegate
                      \/ lockOwner[c] # NoOwner /\ slots[c][k].dlg = TornDelegate
             /\ io[c].pc = "lock" /\ io'[c].pc # "lock" =>
                   /\ lockOwner[c] \in {NoOwner, c}
                   /\ lockOwner'[c] = c
                   /\ slots[c][io[c].kind].dlg # TornDelegate
                   /\ ~(\E k \in Slots : Installing(c, k))]_vars

C20_Witness ==
    \E c \in Conns :
       /\ Installing(c, "broken")
       /\ slots[c]["data"] = [dlg |-> 1, ver |-> 1]
       /\ slots[c]["broken"].dlg = TornDelegate

(***************************************************************************)
(* SpecConnect: the Connect calls alone, over all the hosts and ports and  *)
(* with the raw connection's diagnostics.  Spec: the first Connect call,   *)
(* then the methods of the adapter it returned, on the caller thread,      *)
(* against the closures on the raw connection's event thread.              *)
(***************************************************************************)
NextConnect ==
    \/ ConnectFactory \/ ConnectSubscribe \/ ConnectResolve \/ ConnectRawConnect
    \/ ConnectInstall \/ ConnectProcess \/ ConnectReturn
    \/ RawEmitsDiagnostic

SpecConnect == Init /\ [][NextConnect]_vars

Next ==
    \/ ConnectFactoryOne \/ ConnectSubscribe \/ ConnectResolve \/ ConnectRawConnect
    \/ ConnectInstall \/ ConnectProcess \/ ConnectReturn
    \/ CallGetPeerId \/ SendData \/ Break
    \/ SetDelegateCall \/ SetDelegateLock \/ SetDelegateWrite
    \/ RawDeliversData \/ RawReportsBroken
    \/ ClosureLock \/ ClosureUnlock \/ ClosureInvoke
    \/ DelegateReturns \/ DelegateCallsSetter
    \/ DelegateSetterLock \/ DelegateSetterWrite

Spec == Init /\ [][Next]_vars

\* SpecPair: two Connect calls to one host, then the methods of the two
\* adapters against the closures of the two raw connections
ConnectFactoryPair == ConnectFactoryOf({"example.com"}, {1883}, {1})

NextPair ==
    \/ ConnectFactoryPair \/ ConnectSubscribe \/ ConnectResolve \/ ConnectRawConnect
    \/ ConnectInstall \/ ConnectProcess \/ ConnectReturn
    \/ CallGetPeerId \/ SendData \/ Break
    \/ SetDelegateCall \/ SetDelegateLock \/ SetDelegateWrite
    \/ RawDeliversData \/ RawReportsBroken
    \/ ClosureLock \/ ClosureUnlock \/ ClosureInvoke
    \/ DelegateReturns \/ DelegateCallsSetter
    \/ DelegateSetterLock \/ DelegateSetterWrite

SpecPair == Init /\ [][NextPair]_vars

\* FairSpec: a thread that can take or release the registry lock does so; a
\* delegate that runs need never return
FairSpec ==
    /\ Spec
    /\ WF_vars(SetDelegateLock) /\ WF_vars(SetDelegateWrite)
    /\ WF_vars(ClosureLock) /\ WF_vars(ClosureUnlock)
    /\ WF_vars(DelegateSetterLock) /\ WF_vars(DelegateSetterWrite)
====
